---- MODULE Spec2Model ----
(***************************************************************************)
(* MuseAI - The Living Museum.                                             *)
(*                                                                         *)
(* A model of the Studio component (src/components/Studio.tsx), of the     *)
(* Gemini service layer it calls (src/services/geminiService.ts) and of    *)
(* the navigation of App (src/App.tsx) that mounts and unmounts it.        *)
(*                                                                         *)
(* JavaScript strings are sequences of one-character strings, so that      *)
(* trim(), ||, template literals, replace(/\s+/g, '') and                  *)
(* match(/#[a-zA-Z0-9_]+/g) are computed as the code computes them.        *)
(* Every handler runs on the event loop: the code between two awaits is    *)
(* one step, and each await of a remote call is a suspension point at      *)
(* which any other handler may run.                                        *)
(***************************************************************************)
EXTENDS Integers, Sequences, FiniteSets, TLC

(***************************************************************************)
(* Strings                                                                 *)
(***************************************************************************)
WordChars == {"a","b","c","d","e","f","g","h","i","j","k","l","m","n","o","p","q","r","s","t","u","v","w","x","y","z","A","B","C","D","E","F","G","H","I","J","K","L","M","N","O","P","Q","R","S","T","U","V","W","X","Y","Z","0","1","2","3","4","5","6","7","8","9","_"}

\* \s of a JavaScript regular expression and the characters trim() strips
IsSpace(c) == c \in {" ", "\t", "\n"}

RECURSIVE TrimStart(_)
TrimStart(s) == IF s # <<>> /\ IsSpace(Head(s)) THEN TrimStart(Tail(s)) ELSE s

RECURSIVE TrimEnd(_)
TrimEnd(s) == IF s # <<>> /\ IsSpace(s[Len(s)]) THEN TrimEnd(SubSeq(s, 1, Len(s) - 1)) ELSE s

\* String.prototype.trim
Trim(s) == TrimEnd(TrimStart(s))

\* a string is truthy iff it is not the empty string
Truthy(s) == s # <<>>

\* a || b on strings
OrElse(a, b) == IF Truthy(a) THEN a ELSE b

\* s.replace(/\s+/g, '')
RemoveWhitespace(s) == SelectSeq(s, LAMBDA c : ~IsSpace(c))

\* Array.prototype.slice(from, to), 0 <= from
Slice(s, from, to) == SubSeq(s, from + 1, IF to < Len(s) THEN to ELSE Len(s))

\* the end (exclusive, 1-based) of the run of word characters that starts at i
RECURSIVE WordEnd(_, _)
WordEnd(text, i) == IF i <= Len(text) /\ text[i] \in WordChars THEN WordEnd(text, i + 1) ELSE i

\* text.match(/#[a-zA-Z0-9_]+/g) from position i on: every match, left to
\* right, each as long as possible; the empty sequence stands for null
RECURSIVE MatchTagsFrom(_, _)
MatchTagsFrom(text, i) ==
    IF i > Len(text) THEN <<>>
    ELSE IF text[i] = "#" /\ WordEnd(text, i + 1) > i + 1
         THEN <<SubSeq(text, i, WordEnd(text, i + 1) - 1)>> \o MatchTagsFrom(text, WordEnd(text, i + 1))
         ELSE MatchTagsFrom(text, i + 1)

MatchTags(text) == MatchTagsFrom(text, 1)

\* s contains t as a substring
Contains(s, t) == \E i \in 0..(Len(s) - Len(t)) : SubSeq(s, i + 1, i + Len(t)) = t

Range(f) == {f[i] : i \in DOMAIN f}

(***************************************************************************)
(* The dataset: the first two museums of MUSEUMS, each with the first of   *)
(* its themes and the first of that theme's example prompts.               *)
(***************************************************************************)
MUSEUMS == <<
  [id |-> "louvre", name |-> <<"T","h","e"," ","L","o","u","v","r","e">>,
   themes |-> <<
     [id |-> "renaissance-classicism", name |-> <<"R","e","n","a","i","s","s","a","n","c","e"," ","C","l","a","s","s","i","c","i","s","m">>,
      examplePrompts |-> <<<<"A"," ","m","a","j","e","s","t","i","c"," ","b","a","n","q","u","e","t"," ","h","a","l","l"," ","w","i","t","h"," ","s","o","f","t",","," ","g","o","l","d","e","n"," ","c","a","n","d","l","e","l","i","g","h","t"," ","a","n","d"," ","s","y","m","m","e","t","r","i","c","a","l"," ","a","r","c","h","e","s",".">>>>] >>],
  [id |-> "moma", name |-> <<"M","o","M","A">>,
   themes |-> <<
     [id |-> "abstract-expressionism", name |-> <<"A","b","s","t","r","a","c","t"," ","E","x","p","r","e","s","s","i","o","n","i","s","m">>,
      examplePrompts |-> <<<<"L","a","r","g","e"," ","c","a","n","v","a","s"," ","f","i","l","l","e","d"," ","w","i","t","h"," ","c","h","a","o","t","i","c"," ","d","r","i","p","s"," ","a","n","d"," ","s","p","l","a","s","h","e","s"," ","o","f"," ","v","i","b","r","a","n","t"," ","p","a","i","n","t",".">>>>] >>] >>

MuseumIds == {m.id : m \in Range(MUSEUMS)}
MuseumById(id) == CHOOSE m \in Range(MUSEUMS) : m.id = id
ThemesOf(museumId) == Range(MuseumById(museumId).themes)
ThemeIdsOf(museumId) == {t.id : t \in ThemesOf(museumId)}
ThemeById(museumId, id) == CHOOSE t \in ThemesOf(museumId) : t.id = id

(***************************************************************************)
(* The Gemini service layer.  Each function is given the outcome of its    *)
(* one remote call, ai.models.generateContent: a response, or a thrown     *)
(* error.  A function's own outcome is Return(value) or Throw.             *)
(***************************************************************************)
Return(v) == [kind |-> "return", value |-> v]
Throw(v) == [kind |-> "throw", value |-> v]

\* a text response: response.text is the text, or undefined (falsy, as "")
TextResponse(text) == [type |-> "ok", text |-> text]
NoTextResponse == [type |-> "ok", text |-> <<>>]
ErrorResponse == [type |-> "throw", text |-> <<>>]

GenericRefinedPrompt == <<"A","n"," ","a","r","t","i","s","t","i","c"," ","i","n","t","e","r","p","r","e","t","a","t","i","o","n"," ","o","f"," ","t","h","e"," ","t","h","e","m","e",".">>

RefineFallback(userInput, themeName) ==
    <<"A","n"," ","a","r","t","i","s","t","i","c"," ","r","e","n","d","i","t","i","o","n"," ","o","f"," ">> \o userInput \o <<" ","i","n"," ","t","h","e"," ","s","t","y","l","e"," ","o","f"," ">> \o themeName \o <<".">>

\* the catch block rethrows instead of returning the fallback
generateRefinedPrompt_rethrows(response, userInput, themeName) ==
    IF response.type = "throw"
    THEN Throw(RefineFallback(userInput, themeName))
    ELSE Return(OrElse(response.text, GenericRefinedPrompt))

generateRefinedPrompt(response, userInput, themeName) ==
    IF response.type = "throw"
    THEN Return(RefineFallback(userInput, themeName))
    ELSE Return(OrElse(response.text, GenericRefinedPrompt))

\* An image as generateThemeImage returns it: the data URL
\* `data:image/png;base64,${data}` of the inline data the service sent for
\* `prompt`; n tells the payloads of different responses apart.  NoImage
\* stands for null.
NoImage == [prompt |-> <<>>, n |-> 0]
ImageOf(prompt, n) == [prompt |-> prompt, n |-> n]

\* The response to a generate-image request for `prompt`: its
\* candidates[0].content.parts, each a text part or an inlineData part that
\* carries the n-th payload the service produced.
ImageResponse(parts, prompt, n) ==
    [type |-> "ok",
     parts |-> [i \in DOMAIN parts |->
                  IF parts[i] = "inlineData"
                  THEN [inlineData |-> TRUE, data |-> ImageOf(prompt, n)]
                  ELSE [inlineData |-> FALSE, data |-> NoImage]]]
ImageErrorResponse == [type |-> "throw", parts |-> <<>>]

\* for (const part of parts) if (part.inlineData) return ...; return null
RECURSIVE FirstInlineData(_)
FirstInlineData(parts) ==
    IF parts = <<>> THEN NoImage
    ELSE IF Head(parts).inlineData THEN Head(parts).data
         ELSE FirstInlineData(Tail(parts))

generateThemeImage(response) ==
    IF response.type = "throw"
    THEN Throw(NoImage)
    ELSE Return(FirstInlineData(response.parts))

MuseAITag == <<"#","M","u","s","e","A","I">>
NameTag(name) == <<"#">> \o RemoveWhitespace(name)
HashtagLimit == 12

\* without .slice(0, 12)
generateSocialHashtags_noLimit(response, museumName, themeName) ==
    IF response.type = "throw"
    THEN Return(<<NameTag(museumName), MuseAITag>>)
    ELSE LET text == OrElse(response.text, <<>>)
             matched == MatchTags(text)
         IN Return(IF matched # <<>> THEN matched
                   ELSE <<NameTag(museumName), NameTag(themeName), MuseAITag>>)

\* the catch block rethrows instead of returning the two tags
generateSocialHashtags_rethrows(response, museumName, themeName) ==
    IF response.type = "throw"
    THEN Throw(<<NameTag(museumName), MuseAITag>>)
    ELSE LET text == OrElse(response.text, <<>>)
             matched == MatchTags(text)
             tags == IF matched # <<>> THEN matched
                     ELSE <<NameTag(museumName), NameTag(themeName), MuseAITag>>
         IN Return(Slice(tags, 0, HashtagLimit))

generateSocialHashtags(response, museumName, themeName) ==
    IF response.type = "throw"
    THEN Return(<<NameTag(museumName), MuseAITag>>)
    ELSE LET text == OrElse(response.text, <<>>)
             matched == MatchTags(text)
             tags == IF matched # <<>> THEN matched
                     ELSE <<NameTag(museumName), NameTag(themeName), MuseAITag>>
         IN Return(Slice(tags, 0, HashtagLimit))

\* Audio payloads (base64 strings) by what playAudio can do with them.
\* NoAudio stands for null.
NoAudio == "null"
AudioPayloads == {"base64", "notBase64"}
SpeechResponse(data) == [type |-> "ok", data |-> data]
SpeechErrorResponse == [type |-> "throw", data |-> ""]

\* return base64Audio || null; a thrown error is caught and gives null
generateSpeech(response) ==
    IF response.type = "throw" THEN Return(NoAudio)
    ELSE Return(IF response.data # "" THEN response.data ELSE NoAudio)

(***************************************************************************)
(* Bounds                                                                  *)
(***************************************************************************)
\* Studio instances mounted in one run
MaxSessions == 1
\* images the remote service produces in one run
MaxImages == 2
\* handler invocations suspended at an await at the same time
MaxInFlight == 2
\* images the remote service produces in a run of FairSpec
FairMaxImages == 1
\* Studio instances mounted, and images produced, in a run of NavSpec
NavMaxSessions == 2
NavMaxImages == 1

\* the responses generateSocialHashtags is tried on: every text of up to
\* MaxTextLen characters of TagAlphabet, and the texts of up to MaxTags tags
MaxTextLen == 3
MaxTags == 13
TagAlphabet == {"#", "a", "_", " ", "!"}

\* what the user types into the idea textarea of a Studio for `theme`:
\* nothing, a blank, or one of the theme's example prompts
Ideas(theme) == {<<>>, <<" ">>} \cup Range(theme.examplePrompts)

\* outcomes of the remote calls
RefineResponses == {TextResponse(<<"A"," ","r","e","g","a","l"," ","c","a","t",","," ","o","i","l"," ","o","n"," ","c","a","n","v","a","s",".">>), TextResponse(<<" ">>),
                    NoTextResponse, ErrorResponse}
ImageParts == {<<>>, <<"text">>, <<"text", "inlineData">>}
HashtagResponses == {TextResponse(<<"#","T","h","e","L","o","u","v","r","e"," ","#","a","r","t"," ","#","M","u","s","e","A","I">>), TextResponse(<<"o","i","l"," ","o","n"," ","c","a","n","v","a","s">>),
                     ErrorResponse}
SpeechResponses == {SpeechResponse(d) : d \in AudioPayloads \cup {""}} \cup {SpeechErrorResponse}

(***************************************************************************)
(* State                                                                   *)
(***************************************************************************)
VARIABLES
    \* App (src/App.tsx)
    currentView, selectedMuseum, selectedTheme,
    \* the mounted Studio instance (src/components/Studio.tsx); sid counts
    \* the instances mounted so far and names the mounted one
    sid, userIdea, refinedPrompt, isRefining, isGenerating, generatedImage,
    error, hashtags, isSpeakingPrompt, isSpeakingGuide,
    \* the suspended handler invocations, each awaiting a remote call or
    \* the audio engine, with the values its closure holds
    refineCalls, generateCalls, tagCalls, speakCalls,
    \* the module-level audioContext of geminiService.ts
    audioContext,
    \* history: the payloads produced so far, the image the current hashtags
    \* were computed from, and the handler, if any, that the last step
    \* called directly rather than through its button, or else what the last
    \* step saw of narration audio: "noaudio" (generateSpeech gave null),
    \* "resolved" or "thrown" (playAudio failed, and settled that way)
    imgSeq, tagsImage, invoked,
    \* generateSocialHashtags on its own: the arguments and remote response
    \* of one call, and what the call gave
    hashtagCase, hashtagResult

appVars == <<currentView, selectedMuseum, selectedTheme>>
sessionVars == <<userIdea, refinedPrompt, isRefining, isGenerating, generatedImage,
                 error, hashtags, isSpeakingPrompt, isSpeakingGuide>>
callVars == <<refineCalls, generateCalls, tagCalls, speakCalls>>
vars == <<currentView, selectedMuseum, selectedTheme, sid, userIdea, refinedPrompt,
          isRefining, isGenerating, generatedImage, error, hashtags, isSpeakingPrompt,
          isSpeakingGuide, refineCalls, generateCalls, tagCalls,
          speakCalls, audioContext, imgSeq, tagsImage, invoked, hashtagCase, hashtagResult>>

Null == "null"
NoError == "null"

\* The module-level audioContext is NoContext (null), or the context that
\* was constructed n-th in this page, n = 1, 2, ...
NoContext == 0
NewAudioContext(ctx) == ctx + 1

(***************************************************************************)
(* App: navigation.  The Studio is rendered, and so mounted, exactly while *)
(* currentView is STUDIO with a museum and a theme selected; leaving that  *)
(* view unmounts it and discards its state.                                *)
(***************************************************************************)
\* refinedPrompt is held outside the Studio instance and outlives it
FreshStudio_keepsPrompt ==
    /\ UNCHANGED refinedPrompt
    /\ isRefining' = FALSE
    /\ isGenerating' = FALSE
    /\ generatedImage' = NoImage
    /\ error' = NoError
    /\ hashtags' = <<>>
    /\ isSpeakingPrompt' = FALSE
    /\ isSpeakingGuide' = FALSE
    /\ tagsImage' = NoImage

\* the useState initial values of Studio
FreshStudio ==
    /\ refinedPrompt' = <<>>
    /\ isRefining' = FALSE
    /\ isGenerating' = FALSE
    /\ generatedImage' = NoImage
    /\ error' = NoError
    /\ hashtags' = <<>>
    /\ isSpeakingPrompt' = FALSE
    /\ isSpeakingGuide' = FALSE
    /\ tagsImage' = NoImage

\* no Studio is mounted
BlankSession == userIdea' = <<>> /\ FreshStudio

StudioRendered == currentView = "STUDIO" /\ selectedMuseum # Null /\ selectedTheme # Null

NotCalled == [kind |-> "none", value |-> <<>>]

\* App and the service module as loaded: no Studio is mounted
AppInit ==
    /\ currentView = "DISCOVER"
    /\ selectedMuseum = Null
    /\ selectedTheme = Null
    /\ sid = 0
    /\ userIdea = <<>>
    /\ refinedPrompt = <<>>
    /\ isRefining = FALSE
    /\ isGenerating = FALSE
    /\ generatedImage = NoImage
    /\ error = NoError
    /\ hashtags = <<>>
    /\ isSpeakingPrompt = FALSE
    /\ isSpeakingGuide = FALSE
    /\ refineCalls = {}
    /\ generateCalls = {}
    /\ tagCalls = {}
    /\ speakCalls = {}
    /\ audioContext = NoContext
    /\ imgSeq = 0
    /\ tagsImage = NoImage
    /\ invoked = "none"

Init ==
    /\ AppInit
    /\ hashtagCase = [response |-> NoTextResponse, museumName |-> <<>>, themeName |-> <<>>]
    /\ hashtagResult = NotCalled

\* a museum card of the DISCOVER view is clicked
handleMuseumSelect ==
    /\ currentView = "DISCOVER"
    /\ \E m \in MuseumIds : selectedMuseum' = m
    /\ currentView' = "MUSEUM_DETAIL"
    /\ invoked' = "none"
    /\ UNCHANGED <<selectedTheme, sid, sessionVars, callVars, audioContext, imgSeq, tagsImage>>
    /\ UNCHANGED <<hashtagCase, hashtagResult>>

\* a theme of the MUSEUM_DETAIL view is clicked: the Studio mounts with the
\* useState initial values, and its mount effect fills in a random example
EnterTheme(maxSessions) ==
    /\ currentView = "MUSEUM_DETAIL" /\ selectedMuseum # Null
    /\ sid < maxSessions
    /\ \E t \in ThemesOf(selectedMuseum) :
          /\ selectedTheme' = t.id
          /\ FreshStudio
          /\ \E i \in DOMAIN t.examplePrompts : userIdea' = t.examplePrompts[i]
    /\ currentView' = "STUDIO"
    /\ sid' = sid + 1
    /\ invoked' = "none"
    /\ UNCHANGED <<selectedMuseum, callVars, audioContext, imgSeq>>
    /\ UNCHANGED <<hashtagCase, hashtagResult>>

handleThemeSelect == EnterTheme(MaxSessions)

\* the logo or "Discover" of the navbar, or "Back to Map"
goHome ==
    /\ currentView' = "DISCOVER"
    /\ selectedMuseum' = Null
    /\ selectedTheme' = Null
    /\ BlankSession
    /\ invoked' = "none"
    /\ UNCHANGED <<sid, callVars, audioContext, imgSeq>>
    /\ UNCHANGED <<hashtagCase, hashtagResult>>

\* without setSelectedTheme(null)
goBackToMuseum_keepsTheme ==
    /\ StudioRendered
    /\ currentView' = "MUSEUM_DETAIL"
    /\ UNCHANGED selectedTheme
    /\ BlankSession
    /\ invoked' = "none"
    /\ UNCHANGED <<selectedMuseum, sid, callVars, audioContext, imgSeq>>
    /\ UNCHANGED <<hashtagCase, hashtagResult>>

\* onBack of the Studio
goBackToMuseum ==
    /\ StudioRendered
    /\ currentView' = "MUSEUM_DETAIL"
    /\ selectedTheme' = Null
    /\ BlankSession
    /\ invoked' = "none"
    /\ UNCHANGED <<selectedMuseum, sid, callVars, audioContext, imgSeq>>
    /\ UNCHANGED <<hashtagCase, hashtagResult>>

(***************************************************************************)
(* Studio                                                                  *)
(***************************************************************************)
InFlight == Cardinality(refineCalls) + Cardinality(generateCalls)
            + Cardinality(tagCalls) + Cardinality(speakCalls)

\* the state is shared by every Studio instance
Mounted_shared(c) == StudioRendered

\* a state setter of the instance that made call c takes effect only while
\* that instance is the mounted one
Mounted(c) == StudioRendered /\ c.sid = sid

ThemeNameOf(c) == ThemeById(c.museum, c.theme).name
MuseumNameOf(c) == MuseumById(c.museum).name

\* the edit also resets the refined prompt
EditIdea_clearsRefined ==
    /\ StudioRendered
    /\ \E v \in Ideas(ThemeById(selectedMuseum, selectedTheme)) : userIdea' = v
    /\ refinedPrompt' = <<>>
    /\ invoked' = "none"
    /\ UNCHANGED <<appVars, sid, isRefining, isGenerating, generatedImage,
                   error, hashtags, isSpeakingPrompt, isSpeakingGuide,
                   callVars, audioContext, imgSeq, tagsImage>>
    /\ UNCHANGED <<hashtagCase, hashtagResult>>

\* onChange of the idea textarea
EditIdea ==
    /\ StudioRendered
    /\ \E v \in Ideas(ThemeById(selectedMuseum, selectedTheme)) : userIdea' = v
    /\ invoked' = "none"
    /\ UNCHANGED <<appVars, sid, refinedPrompt, isRefining, isGenerating, generatedImage,
                   error, hashtags, isSpeakingPrompt, isSpeakingGuide,
                   callVars, audioContext, imgSeq, tagsImage>>
    /\ UNCHANGED <<hashtagCase, hashtagResult>>

\* ---- Refine ----
\* without `if (!userIdea.trim()) return;`
RefineAccepts_noGuard == TRUE

\* if (!userIdea.trim()) return;
RefineAccepts == Truthy(Trim(userIdea))

handleRefine ==
    /\ StudioRendered
    /\ IF ~RefineAccepts
       THEN UNCHANGED <<appVars, sid, sessionVars, callVars, audioContext, imgSeq, tagsImage>>
       ELSE /\ InFlight < MaxInFlight
            /\ isRefining' = TRUE
            /\ error' = NoError
            /\ refineCalls' = refineCalls \cup
                   {[sid |-> sid, userInput |-> userIdea, museum |-> selectedMuseum, theme |-> selectedTheme]}
            /\ UNCHANGED <<appVars, sid, userIdea, refinedPrompt, isGenerating, generatedImage,
                           hashtags, isSpeakingPrompt, isSpeakingGuide, generateCalls, tagCalls,
                           speakCalls, audioContext, imgSeq, tagsImage>>
    /\ UNCHANGED <<hashtagCase, hashtagResult>>

\* disabled={isRefining || !userIdea}
RefineButtonDisabled == isRefining \/ ~Truthy(userIdea)

ClickRefine == ~RefineButtonDisabled /\ handleRefine /\ invoked' = "none"

\* the await of generateRefinedPrompt resumes
RefineResumes(c, result) ==
    /\ refineCalls' = refineCalls \ {c}
    /\ IF ~Mounted(c)
       THEN /\ invoked' = "none"
            /\ UNCHANGED sessionVars
       ELSE /\ IF result.kind = "return"
               THEN /\ refinedPrompt' = result.value
                    /\ invoked' = "none"
                    /\ UNCHANGED error
               ELSE /\ error' = "Could not refine prompt. Try again."
                    /\ invoked' = "none"
                    /\ UNCHANGED refinedPrompt
            /\ isRefining' = FALSE
            /\ UNCHANGED <<userIdea, isGenerating, generatedImage, hashtags, isSpeakingPrompt, isSpeakingGuide>>
    /\ UNCHANGED <<appVars, sid, generateCalls, tagCalls, speakCalls, audioContext, imgSeq, tagsImage>>
    /\ UNCHANGED <<hashtagCase, hashtagResult>>

RefineReturns ==
    \E c \in refineCalls, response \in RefineResponses :
        RefineResumes(c, generateRefinedPrompt(response, c.userInput, ThemeNameOf(c)))

\* ---- Generate ----
\* refinedPrompt || userIdea
EffectivePrompt == OrElse(refinedPrompt, userIdea)

\* if (!promptToUse.trim()) return;
GenerateAccepts == Truthy(Trim(EffectivePrompt))

\* setGeneratedImage(null) is left out
GenerateClears_keepsImage ==
    /\ UNCHANGED generatedImage
    /\ hashtags' = <<>>
    /\ tagsImage' = NoImage

\* setGeneratedImage(null); setHashtags([]);
GenerateClears ==
    /\ generatedImage' = NoImage
    /\ hashtags' = <<>>
    /\ tagsImage' = NoImage

handleGenerate ==
    /\ StudioRendered
    /\ IF ~GenerateAccepts
       THEN UNCHANGED <<appVars, sid, sessionVars, callVars, audioContext, imgSeq, tagsImage>>
       ELSE /\ InFlight < MaxInFlight
            /\ imgSeq < MaxImages
            /\ isGenerating' = TRUE
            /\ error' = NoError
            /\ GenerateClears
            /\ generateCalls' = generateCalls \cup
                   {[sid |-> sid, prompt |-> EffectivePrompt, museum |-> selectedMuseum, theme |-> selectedTheme]}
            /\ UNCHANGED <<appVars, sid, userIdea, refinedPrompt, isRefining, isSpeakingPrompt,
                           isSpeakingGuide, refineCalls, tagCalls, speakCalls, audioContext, imgSeq>>
    /\ UNCHANGED <<hashtagCase, hashtagResult>>

\* disabled={isGenerating || (!userIdea && !refinedPrompt)}
GenerateButtonDisabled == isGenerating \/ (~Truthy(userIdea) /\ ~Truthy(refinedPrompt))

ClickGenerate == ~GenerateButtonDisabled /\ handleGenerate /\ invoked' = "none"

\* finally { setIsGenerating(false) } without the finally block
GenerateFinally_missing == UNCHANGED isGenerating

\* finally { setIsGenerating(false) }
GenerateFinally == isGenerating' = FALSE

\* a rejected call is issued again
GenerateSettles_retries(c, result) ==
    generateCalls' = IF result.kind = "throw" THEN generateCalls ELSE generateCalls \ {c}

\* the awaited call has settled, and handleGenerate calls generateThemeImage
\* nowhere else
GenerateSettles(c, result) == generateCalls' = generateCalls \ {c}

\* the await of generateThemeImage resumes; on an image the hashtag call is
\* issued whether or not the instance is still mounted
GenerateResumes(c, result) ==
    /\ GenerateSettles(c, result)
    /\ IF result.kind = "return" /\ result.value # NoImage
       THEN /\ tagCalls' = tagCalls \cup
                   {[sid |-> c.sid, image |-> result.value, museum |-> c.museum, theme |-> c.theme]}
            /\ imgSeq' = imgSeq + 1
       ELSE UNCHANGED <<tagCalls, imgSeq>>
    /\ IF ~Mounted(c)
       THEN /\ invoked' = "none"
            /\ UNCHANGED sessionVars
       ELSE /\ IF result.kind = "return"
               THEN IF result.value # NoImage
                    THEN /\ generatedImage' = result.value
                         /\ invoked' = "none"
                         /\ UNCHANGED error
                    ELSE /\ error' = "No image data returned."
                         /\ invoked' = "none"
                         /\ UNCHANGED generatedImage
               ELSE /\ error' = "Failed to generate image. The creative muse is resting (API Error)."
                    /\ invoked' = "none"
                    /\ UNCHANGED generatedImage
            /\ GenerateFinally
            /\ UNCHANGED <<userIdea, refinedPrompt, isRefining, hashtags, isSpeakingPrompt, isSpeakingGuide>>
    /\ UNCHANGED <<appVars, sid, refineCalls, speakCalls, audioContext, tagsImage>>
    /\ UNCHANGED <<hashtagCase, hashtagResult>>

\* the request is built from the prompt as it is when the call resumes
GenerateReturns_currentPrompt ==
    \E c \in generateCalls :
        \/ \E parts \in ImageParts :
              GenerateResumes(c, generateThemeImage(ImageResponse(parts, EffectivePrompt, imgSeq + 1)))
        \/ GenerateResumes(c, generateThemeImage(ImageErrorResponse))

GenerateReturns ==
    \E c \in generateCalls :
        \/ \E parts \in ImageParts :
              GenerateResumes(c, generateThemeImage(ImageResponse(parts, c.prompt, imgSeq + 1)))
        \/ GenerateResumes(c, generateThemeImage(ImageErrorResponse))

\* ---- the background hashtag fetch ----
\* .then(tags => setHashtags(tags)).catch(err => console.error(...))
TagsResume(c, result) ==
    /\ tagCalls' = tagCalls \ {c}
    /\ IF ~Mounted(c)
       THEN /\ invoked' = "none"
            /\ UNCHANGED <<hashtags, tagsImage>>
       ELSE IF result.kind = "return"
            THEN /\ hashtags' = result.value
                 /\ tagsImage' = c.image
                 /\ invoked' = "none"
            ELSE /\ invoked' = "none"
                 /\ UNCHANGED <<hashtags, tagsImage>>
    /\ UNCHANGED <<appVars, sid, userIdea, refinedPrompt, isRefining, isGenerating, generatedImage,
                   error, isSpeakingPrompt, isSpeakingGuide, refineCalls,
                   generateCalls, speakCalls, audioContext, imgSeq>>
    /\ UNCHANGED <<hashtagCase, hashtagResult>>

TagsReturn ==
    \E c \in tagCalls, response \in HashtagResponses :
        TagsResume(c, generateSocialHashtags(response, MuseumNameOf(c), ThemeNameOf(c)))

\* ---- Narration ----
\* without `if (!audioContext)`: every call constructs a context
ContextFor_recreates(ctx) == NewAudioContext(ctx)

\* if (!audioContext) { audioContext = new AudioContext(...) }
ContextFor(ctx) == IF ctx = NoContext THEN NewAudioContext(ctx) ELSE ctx

\* playAudio up to its first await: the context is created on first use,
\* then atob decodes the payload; an exception of either is caught
playAudioStart(audio, ctx, canCreate) ==
    IF ContextFor(ctx) # ctx /\ ~canCreate THEN [next |-> "caught", ctx |-> ctx]
    ELSE IF audio = "notBase64" THEN [next |-> "caught", ctx |-> ContextFor(ctx)]
    ELSE [next |-> "decoding", ctx |-> ContextFor(ctx)]

\* the await of decodeAudioData resumes: a rejection is caught, else the
\* source is started and playAudio awaits its onended
playAudioDecoded(decoded) == IF ~decoded THEN "caught" ELSE "playing"

\* catch (error) { console.error(...); throw error; }
playAudioCaught_rethrows == "thrown"

\* catch (error) { console.error(...) }: playAudio resolves
playAudioCaught == "resolved"

\* if (!textToSpeak || isSpeakingPrompt) return;
SpeakPromptAccepts == Truthy(EffectivePrompt) /\ ~isSpeakingPrompt

handleSpeakPrompt ==
    /\ StudioRendered
    /\ IF ~SpeakPromptAccepts
       THEN UNCHANGED <<appVars, sid, sessionVars, callVars, audioContext, imgSeq, tagsImage>>
       ELSE /\ InFlight < MaxInFlight
            /\ isSpeakingPrompt' = TRUE
            /\ speakCalls' = speakCalls \cup
                   {[handler |-> "prompt", sid |-> sid, stage |-> "speech", audio |-> NoAudio]}
            /\ UNCHANGED <<appVars, sid, userIdea, refinedPrompt, isRefining, isGenerating,
                           generatedImage, error, hashtags, isSpeakingGuide, refineCalls,
                           generateCalls, tagCalls, audioContext, imgSeq, tagsImage>>
    /\ UNCHANGED <<hashtagCase, hashtagResult>>

\* the button is rendered only with a refined prompt
SpeakPromptButtonDisabled == ~Truthy(refinedPrompt) \/ isSpeakingPrompt

ClickSpeakPrompt == ~SpeakPromptButtonDisabled /\ handleSpeakPrompt /\ invoked' = "none"

\* if (!generatedImage || isSpeakingGuide) return;
SpeakImageAccepts == generatedImage # NoImage /\ ~isSpeakingGuide

handleSpeakImage ==
    /\ StudioRendered
    /\ IF ~SpeakImageAccepts
       THEN UNCHANGED <<appVars, sid, sessionVars, callVars, audioContext, imgSeq, tagsImage>>
       ELSE /\ InFlight < MaxInFlight
            /\ isSpeakingGuide' = TRUE
            /\ speakCalls' = speakCalls \cup
                   {[handler |-> "image", sid |-> sid, stage |-> "describe", audio |-> NoAudio]}
            /\ UNCHANGED <<appVars, sid, userIdea, refinedPrompt, isRefining, isGenerating,
                           generatedImage, error, hashtags, isSpeakingPrompt, refineCalls,
                           generateCalls, tagCalls, audioContext, imgSeq, tagsImage>>
    /\ UNCHANGED <<hashtagCase, hashtagResult>>

\* the button is rendered only with an image
SpeakImageButtonDisabled == generatedImage = NoImage \/ isSpeakingGuide

ClickSpeakImage == ~SpeakImageButtonDisabled /\ handleSpeakImage /\ invoked' = "none"

\* playAudio is not awaited: the handler runs on to its finally
SpeakAdvances_notAwaited(c, stage, audio) ==
    /\ speakCalls' = (speakCalls \ {c}) \cup {[c EXCEPT !.stage = stage, !.audio = audio]}
    /\ IF stage = "describe" \/ stage = "speech" \/ ~Mounted(c)
       THEN UNCHANGED sessionVars
       ELSE IF c.handler = "prompt"
            THEN /\ isSpeakingPrompt' = FALSE
                 /\ UNCHANGED <<userIdea, refinedPrompt, isRefining, isGenerating, generatedImage,
                                error, hashtags, isSpeakingGuide>>
            ELSE /\ isSpeakingGuide' = FALSE
                 /\ UNCHANGED <<userIdea, refinedPrompt, isRefining, isGenerating, generatedImage,
                                error, hashtags, isSpeakingPrompt>>

\* a narration call moves on to its next await
SpeakAdvances(c, stage, audio) ==
    /\ speakCalls' = (speakCalls \ {c}) \cup {[c EXCEPT !.stage = stage, !.audio = audio]}
    /\ UNCHANGED sessionVars

\* a narration handler runs to its end: outcome is "noaudio" (generateSpeech
\* gave null), "resolved" or "thrown" (of playAudio)
SpeakFinishes(c, outcome) ==
    /\ speakCalls' = speakCalls \ {c}
    /\ IF ~Mounted(c)
       THEN UNCHANGED sessionVars
       ELSE IF c.handler = "prompt"
            THEN /\ isSpeakingPrompt' = FALSE
                 /\ UNCHANGED <<userIdea, refinedPrompt, isRefining, isGenerating, generatedImage,
                                error, hashtags, isSpeakingGuide>>
            ELSE /\ isSpeakingGuide' = FALSE
                 /\ UNCHANGED <<userIdea, refinedPrompt, isRefining, isGenerating, generatedImage,
                                error, hashtags, isSpeakingPrompt>>

\* the await of generateMuseumGuideDescription resumes (it always returns a
\* description) and generateSpeech is called with it
DescribeReturns ==
    /\ \E c \in speakCalls :
          /\ c.stage = "describe"
          /\ SpeakAdvances(c, "speech", NoAudio)
    /\ invoked' = "none"
    /\ UNCHANGED <<appVars, sid, refineCalls, generateCalls, tagCalls, audioContext, imgSeq, tagsImage>>
    /\ UNCHANGED <<hashtagCase, hashtagResult>>

\* without `if (audioData)`: playAudio is called with whatever
\* generateSpeech returned
SpeechReturns_alwaysPlays ==
    /\ \E c \in speakCalls, response \in SpeechResponses, canCreate \in BOOLEAN :
          /\ c.stage = "speech"
          /\ LET audio == generateSpeech(response).value
                 started == playAudioStart(audio, audioContext, canCreate)
             IN /\ audioContext' = started.ctx
                /\ IF started.next = "caught"
                   THEN /\ SpeakFinishes(c, playAudioCaught)
                        /\ invoked' = IF audio = NoAudio THEN "noaudio" ELSE playAudioCaught
                   ELSE /\ SpeakAdvances(c, "decoding", NoAudio)
                        /\ invoked' = IF audio = NoAudio THEN "noaudio" ELSE "none"
    /\ UNCHANGED <<appVars, sid, refineCalls, generateCalls, tagCalls, imgSeq, tagsImage>>
    /\ UNCHANGED <<hashtagCase, hashtagResult>>

\* the await of generateSpeech resumes; with audio, playAudio runs up to
\* its await of decodeAudioData
SpeechReturns ==
    /\ \E c \in speakCalls, response \in SpeechResponses, canCreate \in BOOLEAN :
          /\ c.stage = "speech"
          /\ LET audio == generateSpeech(response).value
                 started == playAudioStart(audio, audioContext, canCreate)
             IN IF audio = NoAudio
                THEN /\ SpeakFinishes(c, "noaudio")
                     /\ invoked' = "noaudio"
                     /\ UNCHANGED audioContext
                ELSE /\ audioContext' = started.ctx
                     /\ IF started.next = "caught"
                        THEN SpeakFinishes(c, playAudioCaught) /\ invoked' = playAudioCaught
                        ELSE SpeakAdvances(c, "decoding", NoAudio) /\ invoked' = "none"
    /\ UNCHANGED <<appVars, sid, refineCalls, generateCalls, tagCalls, imgSeq, tagsImage>>
    /\ UNCHANGED <<hashtagCase, hashtagResult>>

DecodeReturns ==
    /\ \E c \in speakCalls, decoded \in BOOLEAN :
          /\ c.stage = "decoding"
          /\ IF playAudioDecoded(decoded) = "caught"
             THEN SpeakFinishes(c, playAudioCaught) /\ invoked' = playAudioCaught
             ELSE SpeakAdvances(c, "playing", NoAudio) /\ invoked' = "none"
    /\ UNCHANGED <<appVars, sid, refineCalls, generateCalls, tagCalls, audioContext, imgSeq, tagsImage>>
    /\ UNCHANGED <<hashtagCase, hashtagResult>>

\* source.onended fires
PlaybackEnds ==
    /\ \E c \in speakCalls :
          /\ c.stage = "playing"
          /\ SpeakFinishes(c, "resolved")
    /\ invoked' = "none"
    /\ UNCHANGED <<appVars, sid, refineCalls, generateCalls, tagCalls, audioContext, imgSeq, tagsImage>>
    /\ UNCHANGED <<hashtagCase, hashtagResult>>

\* the audio sources that are playing
Playing == {c \in speakCalls : c.stage = "playing"}

(***************************************************************************)
(* Specifications                                                          *)
(***************************************************************************)
\* the user acts through the rendered views
Next ==
    \/ handleMuseumSelect
    \/ handleThemeSelect
    \/ goHome
    \/ goBackToMuseum
    \/ EditIdea
    \/ ClickRefine
    \/ ClickGenerate
    \/ ClickSpeakPrompt
    \/ ClickSpeakImage
    \/ RefineReturns
    \/ GenerateReturns
    \/ TagsReturn
    \/ DescribeReturns
    \/ SpeechReturns
    \/ DecodeReturns
    \/ PlaybackEnds

Spec == Init /\ [][Next]_vars

\* The handlers called whatever the inputs are: the buttons' conditions on
\* userIdea, refinedPrompt and generatedImage are left out, their conditions
\* on isRefining and isGenerating are kept.
InvokeRefine == ~isRefining /\ handleRefine /\ invoked' = "handleRefine"
InvokeGenerate == ~isGenerating /\ handleGenerate /\ invoked' = "handleGenerate"
InvokeSpeakPrompt == handleSpeakPrompt /\ invoked' = "handleSpeakPrompt"
InvokeSpeakImage == handleSpeakImage /\ invoked' = "handleSpeakImage"

HandlerNext ==
    \/ handleMuseumSelect
    \/ handleThemeSelect
    \/ goHome
    \/ goBackToMuseum
    \/ EditIdea
    \/ InvokeRefine
    \/ InvokeGenerate
    \/ InvokeSpeakPrompt
    \/ InvokeSpeakImage
    \/ RefineReturns
    \/ GenerateReturns
    \/ TagsReturn
    \/ DescribeReturns
    \/ SpeechReturns
    \/ DecodeReturns
    \/ PlaybackEnds

HandlerSpec == Init /\ [][HandlerNext]_vars

\* Every remote call returns or throws, decodeAudioData settles and a
\* started playback ends: each suspended call, taken by itself, resumes.
RefineReturnsOf(s) ==
    \E c \in refineCalls, response \in RefineResponses :
        /\ c.sid = s
        /\ RefineResumes(c, generateRefinedPrompt(response, c.userInput, ThemeNameOf(c)))

GenerateReturnsOf(s) ==
    \E c \in generateCalls :
        /\ c.sid = s
        /\ \/ \E parts \in ImageParts :
                 GenerateResumes(c, generateThemeImage(ImageResponse(parts, c.prompt, imgSeq + 1)))
           \/ GenerateResumes(c, generateThemeImage(ImageErrorResponse))

SpeakResumesOf(h, s) ==
    /\ \E c \in speakCalls : c.handler = h /\ c.sid = s
    /\ DescribeReturns \/ SpeechReturns \/ DecodeReturns \/ PlaybackEnds
    /\ speakCalls' \cap {c \in speakCalls : c.handler = h /\ c.sid = s} = {}

Fairness ==
    /\ \A s \in 1..MaxSessions : WF_vars(RefineReturnsOf(s))
    /\ \A s \in 1..MaxSessions : WF_vars(GenerateReturnsOf(s))
    /\ \A h \in {"prompt", "image"}, s \in 1..MaxSessions : WF_vars(SpeakResumesOf(h, s))

\* the runs of Next in which the first museum is the one visited and the
\* service produces at most FairMaxImages images
FairBound == selectedMuseum \in {Null, MUSEUMS[1].id} /\ imgSeq <= FairMaxImages

FairNext ==
    \/ handleMuseumSelect /\ FairBound'
    \/ handleThemeSelect /\ FairBound'
    \/ goHome /\ FairBound'
    \/ goBackToMuseum /\ FairBound'
    \/ EditIdea /\ FairBound'
    \/ ClickRefine /\ FairBound'
    \/ ClickGenerate /\ FairBound'
    \/ ClickSpeakPrompt /\ FairBound'
    \/ ClickSpeakImage /\ FairBound'
    \/ RefineReturns /\ FairBound'
    \/ GenerateReturns /\ FairBound'
    \/ TagsReturn /\ FairBound'
    \/ DescribeReturns /\ FairBound'
    \/ SpeechReturns /\ FairBound'
    \/ DecodeReturns /\ FairBound'
    \/ PlaybackEnds /\ FairBound'

FairSpec == Init /\ [][FairNext]_vars /\ Fairness

\* Navigation out of a Studio and into the next one, with calls of the
\* first still in flight: the runs of Next with up to NavMaxSessions Studio
\* instances and at most NavMaxImages images.
NavBound == imgSeq <= NavMaxImages

NavNext ==
    \/ handleMuseumSelect /\ NavBound'
    \/ EnterTheme(NavMaxSessions) /\ NavBound'
    \/ goHome /\ NavBound'
    \/ goBackToMuseum /\ NavBound'
    \/ EditIdea /\ NavBound'
    \/ ClickRefine /\ NavBound'
    \/ ClickGenerate /\ NavBound'
    \/ ClickSpeakPrompt /\ NavBound'
    \/ ClickSpeakImage /\ NavBound'
    \/ RefineReturns /\ NavBound'
    \/ GenerateReturns /\ NavBound'
    \/ TagsReturn /\ NavBound'
    \/ DescribeReturns /\ NavBound'
    \/ SpeechReturns /\ NavBound'
    \/ DecodeReturns /\ NavBound'
    \/ PlaybackEnds /\ NavBound'

NavSpec == Init /\ [][NavNext]_vars

(***************************************************************************)
(* generateSocialHashtags on its own                                       *)
(***************************************************************************)
Texts(n) == UNION {[1..k -> TagAlphabet] : k \in 0..n}

\* k tags separated by blanks
RECURSIVE TagRun(_)
TagRun(k) == IF k = 0 THEN <<>> ELSE <<"#", "a", "_", " ">> \o TagRun(k - 1)

HashtagCases ==
    {[response |-> r, museumName |-> m.name, themeName |-> t.name] :
        r \in {TextResponse(x) : x \in Texts(MaxTextLen) \cup {TagRun(k) : k \in 0..MaxTags}}
               \cup {NoTextResponse, ErrorResponse},
        m \in Range(MUSEUMS), t \in UNION {Range(mm.themes) : mm \in Range(MUSEUMS)}}

HashtagInit ==
    /\ AppInit
    /\ hashtagCase \in HashtagCases
    /\ hashtagResult = NotCalled

CallHashtags ==
    /\ hashtagResult = NotCalled
    /\ hashtagResult' = generateSocialHashtags(hashtagCase.response, hashtagCase.museumName,
                                                hashtagCase.themeName)
    /\ UNCHANGED <<appVars, sid, sessionVars, callVars, audioContext, imgSeq, tagsImage,
                   invoked, hashtagCase>>

HashtagSpec == HashtagInit /\ [][CallHashtags]_vars

(***************************************************************************)
(* Properties                                                              *)
(***************************************************************************)
FlagsUp ==
    Cardinality({f \in {"isRefining", "isGenerating", "isSpeakingPrompt", "isSpeakingGuide"} :
        \/ f = "isRefining" /\ isRefining
        \/ f = "isGenerating" /\ isGenerating
        \/ f = "isSpeakingPrompt" /\ isSpeakingPrompt
        \/ f = "isSpeakingGuide" /\ isSpeakingGuide})

\* C1: in every reachable state of a Studio session at most one of
\* isRefining, isGenerating, isSpeakingPrompt, isSpeakingGuide is true.
C1_AtMostOneInFlight == FlagsUp <= 1

\* C2: whenever an image is shown together with a non-empty hashtags list,
\* that list was computed from the image that is shown.
C2_HashtagsOfCurrentImage ==
    (generatedImage # NoImage /\ hashtags # <<>>) => tagsImage = generatedImage

\* C3: when a generateThemeImage call of the mounted Studio throws or returns
\* null (the one completion that produces no image, so imgSeq stays), the
\* step leaves generatedImage absent, error set and isGenerating false.
C3_FailedGenerate ==
    [][\A c \in generateCalls :
          (c \notin generateCalls' /\ Mounted(c) /\ imgSeq' = imgSeq)
          => (generatedImage' = NoImage /\ error' # NoError /\ ~isGenerating')]_vars

C3_Witness ==
    /\ StudioRendered
    /\ generateCalls = {}
    /\ generatedImage = NoImage
    /\ error = "No image data returned."
    /\ ~isGenerating

\* C4: every completed handleRefine of the mounted Studio leaves
\* refinedPrompt with at least one non-whitespace character.
C4_RefinedPromptNotBlank ==
    [][\A c \in refineCalls :
          (c \notin refineCalls' /\ Mounted(c)) => Truthy(Trim(refinedPrompt'))]_vars

\* C5: a generateThemeImage call carries the prompt refinedPrompt || userIdea
\* of the state in which handleGenerate was invoked, and the image a
\* completion stores is the answer to the prompt carried by the call that
\* completes, whatever userIdea and refinedPrompt have become since.
C5_ImageOfInvocationPrompt ==
    [][/\ \A c \in generateCalls' \ generateCalls :
             c.prompt = (IF refinedPrompt # <<>> THEN refinedPrompt ELSE userIdea)
       /\ (generatedImage' # generatedImage /\ generatedImage' # NoImage)
          => \E c \in generateCalls \ generateCalls' : generatedImage'.prompt = c.prompt]_vars

C5_Witness ==
    /\ StudioRendered
    /\ generatedImage # NoImage
    /\ generatedImage.prompt # (IF refinedPrompt # <<>> THEN refinedPrompt ELSE userIdea)

\* C6: error becomes set only in a step in which a generateThemeImage call
\* completes without an image; no other step sets it.
C6_ErrorOnlyFromGenerate ==
    [][(error' # NoError /\ error' # error)
       => (imgSeq' = imgSeq /\ \E c \in generateCalls : c \notin generateCalls')]_vars

\* the refine request failed: the fallback prompt is shown and error is null
C6_Witness ==
    /\ StudioRendered
    /\ ~isRefining
    /\ error = NoError
    /\ refinedPrompt = RefineFallback(userIdea, ThemeById(selectedMuseum, selectedTheme).name)

C7_Rejected ==
    \/ invoked' = "handleRefine" /\ userIdea = <<>>
    \/ /\ invoked' \in {"handleGenerate", "handleSpeakPrompt"}
       /\ refinedPrompt = <<>> /\ userIdea = <<>>
    \/ invoked' = "handleSpeakImage" /\ generatedImage = NoImage

\* C7: handleRefine invoked with an empty userIdea, handleGenerate or
\* handleSpeakPrompt invoked with refinedPrompt and userIdea both empty, and
\* handleSpeakImage invoked without an image issue no call and change no
\* Studio field.
C7_PreconditionRejection ==
    [][C7_Rejected => UNCHANGED <<sessionVars, callVars, audioContext, imgSeq>>]_vars

C7_Witness ==
    /\ invoked = "handleRefine"
    /\ userIdea = <<>>
    /\ ~isRefining
    /\ refineCalls = {}

\* C8: at most one audio playback is in progress at any time.
C8_SinglePlayback == Cardinality(Playing) <= 1

\* C9: under Fairness, each of the four in-flight flags, once true, is
\* eventually false again.
C9_EventuallyIdle ==
    /\ isRefining ~> ~isRefining
    /\ isGenerating ~> ~isGenerating
    /\ isSpeakingPrompt ~> ~isSpeakingPrompt
    /\ isSpeakingGuide ~> ~isSpeakingGuide

C9_Witness ==
    /\ isSpeakingGuide
    /\ \E c \in Playing : c.handler = "image" /\ Mounted(c)

NoTagToken(text) ==
    ~\E i \in 1..(Len(text) - 1) : text[i] = "#" /\ text[i + 1] \in WordChars

\* C10: for every response that is not an error, generateSocialHashtags
\* returns at most 12 tags, and when the text holds no '#' followed by a
\* letter, digit or underscore it returns exactly '#' + museum name without
\* whitespace, '#' + theme name without whitespace, '#MuseAI'.
C10_HashtagResult ==
    (hashtagResult # NotCalled /\ hashtagCase.response.type # "throw")
    => /\ hashtagResult.kind = "return"
       /\ Len(hashtagResult.value) <= 12
       /\ NoTagToken(hashtagCase.response.text)
          => hashtagResult.value = <<<<"#">> \o RemoveWhitespace(hashtagCase.museumName),
                                     <<"#">> \o RemoveWhitespace(hashtagCase.themeName),
                                     MuseAITag>>

C10_Witness ==
    /\ hashtagResult # NotCalled
    /\ hashtagCase.response = TextResponse(TagRun(MaxTags))
    /\ Len(hashtagResult.value) = 12

\* C11: the hashtags stored for the image that is shown are at most 12, and
\* have among them '#' + the museum's name without whitespace and '#MuseAI'.
C11_HashtagsNameMuseumAndBrand ==
    (StudioRendered /\ generatedImage # NoImage /\ hashtags # <<>> /\ tagsImage = generatedImage)
    => /\ Len(hashtags) <= 12
       /\ \E i \in DOMAIN hashtags :
             hashtags[i] = <<"#">> \o RemoveWhitespace(MuseumById(selectedMuseum).name)
       /\ \E i \in DOMAIN hashtags : hashtags[i] = MuseAITag

\* C12: hashtags is empty whenever no image is shown.
C12_NoHashtagsWithoutImage == generatedImage = NoImage => hashtags = <<>>

\* C13: while isGenerating is true no image is shown.
C13_NoImageWhileGenerating == isGenerating => generatedImage = NoImage

\* a generation in flight after an earlier one has produced an image
C13_Witness ==
    /\ StudioRendered
    /\ isGenerating
    /\ imgSeq >= 1
    /\ generatedImage = NoImage
    /\ \E c \in generateCalls : c.sid = sid

AbandonedSettles ==
    /\ StudioRendered
    /\ \/ \E c \in refineCalls \ refineCalls' : c.sid # sid
       \/ \E c \in generateCalls \ generateCalls' : c.sid # sid
       \/ \E c \in tagCalls \ tagCalls' : c.sid # sid
       \/ \E c \in speakCalls \ speakCalls' : c.sid # sid

\* C15: a step in which a refine, generate, hashtag or narration call of an
\* earlier Studio instance resumes changes no field of the mounted one.
C15_AbandonedCallsChangeNothing ==
    [][AbandonedSettles => UNCHANGED sessionVars]_vars

\* the second Studio has state of its own while a hashtag fetch issued for
\* the first one's image is pending
C15_Witness ==
    /\ StudioRendered
    /\ sid = 2
    /\ refinedPrompt # <<>>
    /\ \E c \in tagCalls : c.sid = 1

\* C16: refinedPrompt changes only when a refine call of the mounted Studio
\* completes or when the Studio is left (and is then empty), and every entry
\* into the STUDIO view starts with refinedPrompt, hashtags empty and
\* generatedImage, error absent.
C16_FreshSessionPerTheme ==
    [][/\ refinedPrompt' # refinedPrompt
          => \/ \E c \in refineCalls \ refineCalls' : c.sid = sid
             \/ currentView = "STUDIO" /\ currentView' # "STUDIO" /\ refinedPrompt' = <<>>
       /\ (currentView # "STUDIO" /\ currentView' = "STUDIO")
          => /\ refinedPrompt' = <<>>
             /\ generatedImage' = NoImage
             /\ hashtags' = <<>>
             /\ error' = NoError]_vars

\* a Studio of the second museum, just entered, after a Studio of the first
\* museum that had produced an image
C16_Witness ==
    /\ StudioRendered
    /\ sid = 2
    /\ selectedMuseum = MUSEUMS[2].id
    /\ refinedPrompt = <<>> /\ generatedImage = NoImage /\ hashtags = <<>> /\ error = NoError
    /\ \E c \in tagCalls : c.sid = 1 /\ c.museum = MUSEUMS[1].id

\* C17: the step in which generateThemeImage returns an image to the mounted
\* Studio shows the image and clears isGenerating while the hashtag call for
\* that image has only been issued.
C17_IdleBeforeHashtags ==
    [][(/\ StudioRendered
        /\ imgSeq' # imgSeq
        /\ \E c \in generateCalls \ generateCalls' : c.sid = sid)
       => /\ ~isGenerating'
          /\ generatedImage' # NoImage
          /\ \E t \in tagCalls' \ tagCalls : t.sid = sid /\ t.image = generatedImage']_vars

\* a second generation has been accepted while the hashtag fetch of the
\* first image is pending
C17_Witness ==
    /\ StudioRendered
    /\ isGenerating
    /\ \E c \in generateCalls : c.sid = sid
    /\ \E t \in tagCalls : t.sid = sid

\* C18: when generateSpeech gives null to a narration handler of the mounted
\* Studio, the handler ends in that step: playAudio does not run (the audio
\* context is as it was and no decoding or playback is started), error is
\* unchanged and the handler's flag is false.
C18_NoAudioNoPlayback ==
    [][\A c \in speakCalls :
          (/\ StudioRendered /\ c.sid = sid
           /\ c.stage = "speech"
           /\ c \notin speakCalls'
           /\ invoked' = "noaudio")
          => /\ speakCalls' = speakCalls \ {c}
             /\ audioContext' = audioContext
             /\ error' = error
             /\ c.handler = "prompt" => ~isSpeakingPrompt'
             /\ c.handler = "image" => ~isSpeakingGuide']_vars

C18_Witness ==
    /\ StudioRendered
    /\ invoked = "noaudio"
    /\ audioContext = NoContext
    /\ speakCalls = {}
    /\ ~isSpeakingPrompt /\ ~isSpeakingGuide

\* C19: isSpeakingPrompt is true exactly while a handleSpeakPrompt call of
\* the mounted Studio is in flight: waiting for generateSpeech, for
\* decodeAudioData or for the end of the playback.
C19_SpeakingUntilPlaybackEnds ==
    isSpeakingPrompt
    = (StudioRendered /\ \E c \in speakCalls : c.handler = "prompt" /\ c.sid = sid)

C19_Witness ==
    /\ StudioRendered
    /\ isSpeakingPrompt
    /\ \E c \in speakCalls : c.handler = "prompt" /\ c.sid = sid /\ c.stage = "playing"

\* C20: when playAudio fails before a playback is started (creating the
\* context, atob, decodeAudioData), it resolves, and the narration handler of
\* the mounted Studio that awaited it ends in that step with its flag false
\* and error unchanged.
C20_PlayAudioFailureResolves ==
    [][\A c \in speakCalls :
          (/\ StudioRendered /\ c.sid = sid
           /\ c.stage \in {"speech", "decoding"}
           /\ speakCalls' = speakCalls \ {c}
           /\ invoked' # "noaudio")
          => /\ invoked' = "resolved"
             /\ error' = error
             /\ c.handler = "prompt" => ~isSpeakingPrompt'
             /\ c.handler = "image" => ~isSpeakingGuide']_vars

\* decodeAudioData has rejected in the last step
C20_Witness ==
    /\ StudioRendered
    /\ invoked = "resolved"
    /\ audioContext # NoContext
    /\ ~isSpeakingGuide
    /\ generatedImage # NoImage

\* a step in which a narration handler calls playAudio: its await of
\* generateSpeech resumes with audio
PlayCalled ==
    \E c \in speakCalls : c.stage = "speech" /\ c \notin speakCalls' /\ invoked' # "noaudio"

\* C21, as claimed: the audio context is absent until the first playAudio
\* call, that first call creates it, and from then on it is never reset to
\* absent nor replaced by another context.
C21_OneContextCreatedByFirstCall ==
    [][/\ audioContext' # audioContext => PlayCalled
       /\ (audioContext = NoContext /\ PlayCalled) => audioContext' # NoContext
       /\ audioContext # NoContext => audioContext' = audioContext]_vars

\* C21, amended: the audio context is absent until a playAudio call; a call
\* made while it is absent either creates it or fails (the constructor
\* threw, and the handler ends in that step), leaving it absent for the next
\* call to create; once created it is never reset to absent nor replaced, in
\* whatever session the later calls are made.
C21_OneContextOnceCreated ==
    [][/\ audioContext' # audioContext => PlayCalled
       /\ (audioContext = NoContext /\ PlayCalled /\ audioContext' = NoContext)
          => /\ invoked' = "resolved"
             /\ \E c \in speakCalls : c.stage = "speech" /\ speakCalls' = speakCalls \ {c}
       /\ audioContext # NoContext => audioContext' = audioContext]_vars

\* a narration of the second Studio has called playAudio while a playback
\* started by the first one is still running
C21_Witness ==
    /\ StudioRendered
    /\ sid = 2
    /\ audioContext # NoContext
    /\ \E c \in speakCalls : c.sid = 1 /\ c.stage = "playing"
    /\ \E c \in speakCalls : c.sid = 2 /\ c.stage \in {"decoding", "playing"}

\* C22: the idea textarea takes an edit in every phase of a mounted Studio,
\* and a step that edits userIdea changes nothing else: refinedPrompt,
\* generatedImage, hashtags, error, the four flags and the calls in flight
\* are as they were, so with a refined prompt present refinedPrompt || userIdea
\* is still that refined prompt.
C22_EditChangesOnlyIdea ==
    /\ [](StudioRendered => ENABLED (EditIdea /\ userIdea' # userIdea))
    /\ [][(StudioRendered /\ currentView' = "STUDIO" /\ userIdea' # userIdea)
          => /\ UNCHANGED <<refinedPrompt, generatedImage, hashtags, error>>
             /\ UNCHANGED <<isRefining, isGenerating, isSpeakingPrompt, isSpeakingGuide>>
             /\ UNCHANGED callVars
             /\ refinedPrompt # <<>>
                => (IF refinedPrompt' # <<>> THEN refinedPrompt' ELSE userIdea') = refinedPrompt]_vars

\* userIdea was emptied while a refine call was in flight (the Refine button
\* takes no click with an empty idea), with an earlier refined prompt present
C22_Witness ==
    /\ StudioRendered
    /\ isRefining
    /\ \E c \in refineCalls : c.sid = sid /\ c.userInput # userIdea
    /\ userIdea = <<>>
    /\ refinedPrompt # <<>>

\* C23: generatedImage and error are never both present: a step that sets
\* error is one in which a generateThemeImage call ends without an image, and
\* leaves generatedImage absent; a step that shows an image finds error
\* absent, cleared when that generation started, and leaves it so.
C23_NeverImageAndError ==
    /\ [](~(generatedImage # NoImage /\ error # NoError))
    /\ [][/\ (error' # NoError /\ error' # error)
             => /\ generatedImage' = NoImage
                /\ imgSeq' = imgSeq
                /\ \E c \in generateCalls \ generateCalls' : c.sid = sid
          /\ (generatedImage' # NoImage /\ generatedImage' # generatedImage)
             => /\ error = NoError /\ error' = NoError
                /\ \E c \in generateCalls \ generateCalls' : c.sid = sid]_vars

\* a generation has failed in a Studio that had shown an image before: the
\* error is present and the earlier image is gone
C23_Witness ==
    /\ StudioRendered
    /\ error # NoError
    /\ generatedImage = NoImage
    /\ imgSeq >= 1
    /\ ~isGenerating

\* C24: generateSocialHashtags returns on every path (tags matched, no tag
\* matched, remote call failed), never throws, and what it returns is
\* between 1 and 12 strings that each begin with '#'; when the remote call
\* failed it is exactly '#' + museum name without whitespace, '#MuseAI'.
C24_HashtagsNeverEmptyNorThrown ==
    hashtagResult # NotCalled
    => /\ hashtagResult.kind = "return"
       /\ Len(hashtagResult.value) >= 1 /\ Len(hashtagResult.value) <= 12
       /\ \A i \in DOMAIN hashtagResult.value :
             hashtagResult.value[i] # <<>> /\ hashtagResult.value[i][1] = "#"
       /\ hashtagCase.response.type = "throw"
          => hashtagResult.value = <<<<"#">> \o RemoveWhitespace(hashtagCase.museumName),
                                     <<"#", "M", "u", "s", "e", "A", "I">>>>

\* the remote call failed for a museum whose name holds a blank
C24_Witness ==
    /\ hashtagResult # NotCalled
    /\ hashtagCase.response.type = "throw"
    /\ hashtagCase.museumName = <<"T","h","e"," ","L","o","u","v","r","e">>
    /\ hashtagResult.value = <<<<"#","T","h","e","L","o","u","v","r","e">>, <<"#","M","u","s","e","A","I">>>>

\* C24, in the Studio: the background fetch of a mounted Studio therefore
\* always takes its .then, never its .catch: the step in which it settles
\* stores a list of 1 to 12 tags computed from the image it was issued for.
C24_FetchAlwaysStores ==
    [][\A c \in tagCalls \ tagCalls' :
          (StudioRendered /\ c.sid = sid)
          => /\ Len(hashtags') >= 1 /\ Len(hashtags') <= 12
             /\ tagsImage' = c.image]_vars

\* C25: in the DISCOVER view no museum and no theme is selected, in the
\* MUSEUM_DETAIL view a museum and no theme, in the STUDIO view both; so the
\* Studio is rendered exactly when currentView is STUDIO.
C25_ViewMatchesSelection ==
    /\ currentView \in {"DISCOVER", "MUSEUM_DETAIL", "STUDIO"}
    /\ currentView = "DISCOVER" => (selectedMuseum = Null /\ selectedTheme = Null)
    /\ currentView = "MUSEUM_DETAIL" => (selectedMuseum # Null /\ selectedTheme = Null)
    /\ currentView = "STUDIO" => (selectedMuseum # Null /\ selectedTheme # Null)
    /\ StudioRendered = (currentView = "STUDIO")

\* the detail view of the second museum, after two Studio instances, the
\* first of them in the first museum
C25_Witness ==
    /\ currentView = "MUSEUM_DETAIL"
    /\ sid = 2
    /\ selectedMuseum = MUSEUMS[2].id
    /\ selectedTheme = Null
    /\ \E c \in refineCalls : c.sid = 1 /\ c.museum = MUSEUMS[1].id

====
